---------------------------- MODULE Spec2Model ----------------------------
(***************************************************************************)
(* geventconnpool: ConnectionPool (pool.py) as a state machine.            *)
(*                                                                         *)
(* Scheduling is cooperative (gevent): a greenlet runs until it blocks in  *)
(* lock.acquire(), sleeps, or enters an application hook that may do I/O.  *)
(* Every action below is one such uninterrupted run.  Timer delays         *)
(* (spawn_later, sleep) are abstracted to "fires at some later time".      *)
(***************************************************************************)
EXTENDS Integers, Sequences, FiniteSets, Bags, TLC

-----------------------------------------------------------------------------
(* Bounds of the model *)

\* size argument of ConnectionPool(size, ...)
Size == 2
\* number of application greenlets calling pool.get()
NumCallers == 1
\* number of handles _new_connection() can hand out in one run
MaxHandles == 3
\* number of falsy results _new_connection() may give to one _add_one task
MaxCreateFail == 1
\* largest max_failures given to retry(); also the number of failures after
\* which the wrapped function stops failing when max_failures is None
MaxFailures == 3

(* Program constants *)

\* stime = 0.1 (pool.py:71), in tenths of a second
STIME_INIT == 1
\* if stime < 400 (pool.py:77), in tenths of a second
STIME_CAP == 4000
\* PoolError.__init__(self, pool, message): arguments required besides self
POOLERROR_INIT_ARGS == 2
\* raise ClosedPoolError(): arguments passed
CLOSEDPOOLERROR_CALL_ARGS == 0

-----------------------------------------------------------------------------
(* Greenlets that use the pool *)

Callers == {<<"caller", n>> : n \in 1..NumCallers}
\* two callers of close(): enough for sequential and overlapping calls
Closers == {<<"closer", 1>>, <<"closer", 2>>}
KeepaliveLoop == <<"keepalive", 1>>
Procs == Callers \cup Closers \cup {KeepaliveLoop}

Kind(p) == p[1]

Handles == 1..MaxHandles
NoHandle == 0

\* errors matched by "except self.exc_classes" (pool.py:65, 96, 117):
\* ConnErr is raised by the body of a get() scope, HookConnErr by
\* _close_connection() when it is called from get()'s handler
ExcClasses == {"ConnErr", "HookConnErr"}

VARIABLES
    closed,      \* self.closed
    keepalive,   \* self.keepalive (0 stands for None)
    conn,        \* self.conn, the deque of idle handles
    lock,        \* self.lock: [counter, initial_value] of the BoundedSemaphore
    tasks,       \* bag of _add_one greenlets, scheduled or running
    nextId,      \* next handle _new_connection() returns
    closeCount,  \* closeCount[h]: calls of _close_connection(h) so far:
                 \* 0, 1, or 2 for "more than one"
    failed,      \* failed[h]: "no"; "lost" once h's scope has ended by an
                 \* error of exc_classes; "renewed" once _add_one has
                 \* enqueued a handle after that
    pc,          \* pc[p]: position of greenlet p
    c,           \* c[p]: the local c of p's get() / with-block
    i,           \* i[p]: loop index of close()
    raised,      \* the error that left a get() in the step just taken,
                 \* "none" when none did
    retry        \* one call of a function wrapped by retry(): its arguments,
                 \* the locals of deco and what an observer counts

vars == <<closed, keepalive, conn, lock, tasks, nextId, closeCount, failed,
          pc, c, i, raised>>

\* max_failures=None (pool.py:138)
None == -1

\* how a call ended: kind is "value" for a return, else the kind of the
\* error raised; attempt is the number of the call of f that produced it
Outcome(kind, n) == [kind |-> kind, attempt |-> n]
NoOutcome == Outcome("none", 0)

\* no retry-wrapped function is being called
NoRetry ==
    [pc |-> "off", max_failures |-> None, logger |-> FALSE, failures |-> 0,
     calls |-> 0, sleeps |-> 0, retryLogs |-> 0, maxLogs |-> 0,
     e |-> NoOutcome, result |-> NoOutcome]

-----------------------------------------------------------------------------
(* Library primitives *)

\* deque.popleft(): the deque without its first element
PopLeftPeek(q) == q
PopLeft(q) == Tail(q)

\* BoundedSemaphore.release() raises ValueError at its initial value
CanRelease(l) == l.counter < l.initial_value
Release(l) == IF CanRelease(l) THEN [l EXCEPT !.counter = @ + 1] ELSE l
AcquireFree(l) == l
Acquire(l) == [l EXCEPT !.counter = @ - 1]

\* raise ClosedPoolError(): the constructor inherited from PoolError takes
\* (pool, message); a call with another number of arguments is a TypeError
NewClosedPoolError ==
    IF CLOSEDPOOLERROR_CALL_ARGS = POOLERROR_INIT_ARGS
    THEN "ClosedPoolError" ELSE "TypeError"

\* one more call of _close_connection(h) observed
CloseHook(cc, h) == [cc EXCEPT ![h] = IF @ < 2 THEN @ + 1 ELSE @]

RECURSIVE Pow2(_)
Pow2(n) == IF n = 0 THEN 1 ELSE 2 * Pow2(n - 1)

\* one more greenlet running _add_one
\* a task is "scheduled" (its timer has not fired) or "sleeping" (in the
\* backoff gevent.sleep(stime))
Task(pcv, st) == [pc |-> pcv, stime |-> st]

SpawnLaterTwice(t) ==
    t (+) SetToBag({Task("scheduled", STIME_INIT)})
      (+) SetToBag({Task("scheduled", STIME_INIT)})
SpawnLater(t) == t (+) SetToBag({Task("scheduled", STIME_INIT)})

\* for i in xrange(n): gevent.spawn_later(SPAWN_FREQUENCY*i, self._add_one)
RECURSIVE SpawnN(_, _)
SpawnN(t, n) ==
    IF n = 0 THEN t
    ELSE SpawnN(t (+) SetToBag({Task("scheduled", STIME_INIT)}), n - 1)

-----------------------------------------------------------------------------
(* ConnectionPool.__init__ *)

PoolInitOversize(size) ==
    [lock  |-> [counter |-> 0, initial_value |-> size + 1],
     tasks |-> SpawnN(EmptyBag, size + 1)]
PoolInit(size) ==
    [lock  |-> [counter |-> 0, initial_value |-> size],
     tasks |-> SpawnN(EmptyBag, size)]

\* the state after ConnectionPool(Size, keepalive = ka); the greenlets of
\* `absent` make no call in this run.  "if self.keepalive:" spawns the loop.
InitWith(ka, absent) ==
    /\ closed = FALSE
    /\ keepalive \in ka
    /\ conn = <<>>
    /\ lock = PoolInit(Size).lock
    /\ tasks = PoolInit(Size).tasks
    /\ nextId = 1
    /\ closeCount = [h \in Handles |-> 0]
    /\ failed = [h \in Handles |-> "no"]
    /\ pc = [p \in Procs |->
               IF p \in absent \/ (p = KeepaliveLoop /\ keepalive = 0)
               THEN "off" ELSE "idle"]
    /\ c = [p \in Procs |-> NoHandle]
    /\ i = [p \in Procs |-> 0]
    /\ raised = "none"

\* one call of close() in the run
Init == InitWith({0, 1}, {<<"closer", 2>>}) /\ retry = NoRetry

\* two calls of close(), one after the other or overlapping
InitOverlap == InitWith({0, 1}, {}) /\ retry = NoRetry

-----------------------------------------------------------------------------
(* ConnectionPool._add_one *)

\* "if stime < 400: stime *= 2", executed when the backoff sleep has ended
NextStime(st) == IF st < STIME_CAP THEN st * 2 ELSE st

\* stime at the call of _new_connection() that task t makes next
CallStime(t) == IF t.pc = "sleeping" THEN NextStime(t.stime) ELSE t.stime

\* the timer fires or the sleep ends, and _new_connection() returns a
\* handle: append it, release the slot
AddOneEnqueue(t) ==
    /\ t \in BagToSet(tasks)
    /\ nextId <= MaxHandles
    /\ conn' = Append(conn, nextId)
    /\ lock' = Release(lock)
    /\ tasks' = tasks (-) SetToBag({t})
    /\ nextId' = nextId + 1
    /\ failed' = [h \in Handles |->
                    IF failed[h] = "lost" THEN "renewed" ELSE failed[h]]
    /\ UNCHANGED <<closed, keepalive, closeCount, pc, c, i>>
    /\ raised' = "none"
    /\ UNCHANGED retry

\* ... and _new_connection() returns a falsy value: gevent.sleep(stime)
AddOneBackoff(t) ==
    /\ t \in BagToSet(tasks)
    /\ CallStime(t) < STIME_INIT * Pow2(MaxCreateFail)
    /\ tasks' = (tasks (-) SetToBag({t})) (+)
                SetToBag({Task("sleeping", CallStime(t))})
    /\ UNCHANGED <<closed, keepalive, conn, lock, nextId, closeCount, failed,
                   pc, c, i>>
    /\ raised' = "none"
    /\ UNCHANGED retry

\* ... and _new_connection() raises: the exception ends the greenlet
AddOneRaise(t) ==
    /\ t \in BagToSet(tasks)
    /\ tasks' = tasks (-) SetToBag({t})
    /\ UNCHANGED <<closed, keepalive, conn, lock, nextId, closeCount, failed,
                   pc, c, i>>
    /\ raised' = "none"
    /\ UNCHANGED retry

-----------------------------------------------------------------------------
(* ConnectionPool.get: entry *)

\* where greenlet p continues when its get() raises an error that neither
\* close() nor the keepalive loop catches
AbortPc(p) ==
    CASE Kind(p) = "caller"    -> "idle"
      [] Kind(p) = "keepalive" -> "dead"
      [] Kind(p) = "closer"    -> "raised"

\* lock.acquire() has succeeded on pool state (q, l, cc): popleft and yield.
\* In close() the body calls _close_connection(c) at once.  popleft on an
\* empty deque raises IndexError, the bare except then fails on the unbound c.
\* r is what the previous get() of this run left (close() loops).
Take(p, q, l, cc, r) ==
    /\ lock' = Acquire(l)
    /\ IF q = <<>>
       THEN /\ pc' = [pc EXCEPT ![p] = AbortPc(p)]
            /\ raised' = "UnboundLocalError"
            /\ c' = c
            /\ conn' = q
            /\ closeCount' = cc
       ELSE /\ pc' = [pc EXCEPT ![p] = "scope"]
            /\ raised' = r
            /\ c' = [c EXCEPT ![p] = Head(q)]
            /\ conn' = PopLeft(q)
            /\ closeCount' = IF Kind(p) = "closer"
                             THEN CloseHook(cc, Head(q))
                             ELSE cc

\* get() is entered on pool state (q, l, cc)
GetBegin(p, q, l, cc, r) ==
    IF closed
    THEN /\ pc' = [pc EXCEPT ![p] = AbortPc(p)]
         /\ raised' = NewClosedPoolError
         /\ c' = c
         /\ conn' = q
         /\ lock' = l
         /\ closeCount' = cc
    ELSE IF l.counter = 0
    THEN /\ pc' = [pc EXCEPT ![p] = "waiting"]
         /\ raised' = r
         /\ c' = c
         /\ conn' = q
         /\ lock' = l
         /\ closeCount' = cc
    ELSE Take(p, q, l, cc, r)

\* p's get() has ended with e (an error or "none"), leaving pool state
\* (q, l, cc); the caller of get() carries on
Finish(p, e, q, l, cc) ==
    IF Kind(p) = "closer" /\ e \in ExcClasses \cup {"none"}
    THEN IF i[p] + 1 = Size
         THEN /\ closed' = TRUE
              /\ i' = [i EXCEPT ![p] = @ + 1]
              /\ pc' = [pc EXCEPT ![p] = "done"]
              /\ raised' = e
              /\ c' = [c EXCEPT ![p] = NoHandle]
              /\ conn' = q
              /\ lock' = l
              /\ closeCount' = cc
         ELSE /\ closed' = closed
              /\ i' = [i EXCEPT ![p] = @ + 1]
              /\ GetBegin(p, q, l, cc, e)
    ELSE /\ closed' = closed
         /\ i' = i
         /\ pc' = [pc EXCEPT ![p] =
                     IF Kind(p) = "keepalive" /\ e \in ExcClasses \cup {"none"}
                     THEN "sleeping" ELSE AbortPc(p)]
         /\ raised' = e
         /\ c' = [c EXCEPT ![p] = NoHandle]
         /\ conn' = q
         /\ lock' = l
         /\ closeCount' = cc

\* an application greenlet enters "with pool.get() as c:"
Call(p) ==
    /\ Kind(p) = "caller"
    /\ pc[p] = "idle"
    /\ GetBegin(p, conn, lock, closeCount, "none")
    /\ UNCHANGED <<closed, keepalive, tasks, nextId, failed, i>>
    /\ UNCHANGED retry

\* a greenlet blocked in lock.acquire() gets the semaphore
Wakeup(p) ==
    /\ pc[p] = "waiting"
    /\ lock.counter > 0
    /\ Take(p, conn, lock, closeCount, "none")
    /\ UNCHANGED <<closed, keepalive, tasks, nextId, failed, i>>
    /\ UNCHANGED retry

-----------------------------------------------------------------------------
(* ConnectionPool.close and ConnectionPool._keepalive_periodic: entry *)

\* close(): nothing to do when closed, else the first get() of the loop
CloseCall(p) ==
    /\ Kind(p) = "closer"
    /\ pc[p] = "idle"
    /\ IF closed
       THEN /\ pc' = [pc EXCEPT ![p] = "done"]
            /\ UNCHANGED <<conn, lock, closeCount, c>>
            /\ raised' = "none"
       ELSE GetBegin(p, conn, lock, closeCount, "none")
    /\ UNCHANGED <<closed, keepalive, tasks, nextId, failed, i>>
    /\ UNCHANGED retry

\* the spawned keepalive greenlet starts: "if not self.closed" is tested
\* once, before the loop
KeepaliveStart(p) ==
    /\ Kind(p) = "keepalive"
    /\ pc[p] = "idle"
    /\ IF closed
       THEN /\ pc' = [pc EXCEPT ![p] = "dead"]
            /\ UNCHANGED <<conn, lock, closeCount, c>>
            /\ raised' = "none"
       ELSE GetBegin(p, conn, lock, closeCount, "none")
    /\ UNCHANGED <<closed, keepalive, tasks, nextId, failed, i>>
    /\ UNCHANGED retry

\* gevent.sleep(delay) ends: next iteration of "while True"
KeepaliveWake(p) ==
    /\ Kind(p) = "keepalive"
    /\ pc[p] = "sleeping"
    /\ GetBegin(p, conn, lock, closeCount, "none")
    /\ UNCHANGED <<closed, keepalive, tasks, nextId, failed, i>>
    /\ UNCHANGED retry

-----------------------------------------------------------------------------
(* ConnectionPool.get: the ways out of the scope *)

\* The body of the with-block is _close_connection(c) in close(),
\* _keepalive(c) in the keepalive loop, application code otherwise.

\* the body ends normally.  else: self.conn.append(c); self.lock.release()
ExitClean(p) ==
    /\ pc[p] = "scope"
    /\ Finish(p, IF CanRelease(lock) THEN "none" ELSE "ValueError",
              Append(conn, c[p]), Release(lock), closeCount)
    /\ UNCHANGED <<keepalive, tasks, nextId, failed>>
    /\ UNCHANGED retry

\* the body raises an error outside exc_classes.
\* except: self.conn.append(c); self.lock.release(); raise
ExitUnrelatedDrop(p) ==
    /\ pc[p] = "scope"
    /\ Finish(p, "OtherErr", conn, lock, closeCount)
    /\ UNCHANGED <<keepalive, tasks, nextId, failed>>
    /\ UNCHANGED retry
ExitUnrelated(p) ==
    /\ pc[p] = "scope"
    /\ Finish(p, IF CanRelease(lock) THEN "OtherErr" ELSE "ValueError",
              Append(conn, c[p]), Release(lock), closeCount)
    /\ UNCHANGED <<keepalive, tasks, nextId, failed>>
    /\ UNCHANGED retry

\* the body raises an error of exc_classes.
\* except self.exc_classes: self._close_connection(c) is called
ExitFailureRelease(p) ==
    /\ pc[p] = "scope"
    /\ pc' = [pc EXCEPT ![p] = "disposing"]
    /\ closeCount' = CloseHook(closeCount, c[p])
    /\ failed' = [failed EXCEPT ![c[p]] = "lost"]
    /\ lock' = Release(lock)
    /\ UNCHANGED <<closed, keepalive, conn, tasks, nextId, c, i, retry>>
    /\ raised' = "none"
ExitFailure(p) ==
    /\ pc[p] = "scope"
    \* a failure is only drawn while its replacement fits in MaxHandles
    /\ nextId + BagCardinality(tasks)
         + Cardinality({q \in Procs : pc[q] = "disposing"}) <= MaxHandles
    /\ pc' = [pc EXCEPT ![p] = "disposing"]
    /\ closeCount' = CloseHook(closeCount, c[p])
    /\ failed' = [failed EXCEPT ![c[p]] = "lost"]
    /\ UNCHANGED <<closed, keepalive, conn, lock, tasks, nextId, c, i>>
    /\ raised' = "none"
    /\ UNCHANGED retry

\* _close_connection(c) returns in the handler:
\* gevent.spawn_later(1, self._add_one); raise
DisposeReturn(p) ==
    /\ pc[p] = "disposing"
    /\ tasks' = SpawnLater(tasks)
    /\ Finish(p, "ConnErr", conn, lock, closeCount)
    /\ UNCHANGED <<keepalive, nextId, failed>>
    /\ UNCHANGED retry

\* _close_connection(c) raises r in the handler: r leaves get() in place of
\* the error being handled, and the rest of the handler does not run
DisposeRaise(p, r) ==
    /\ pc[p] = "disposing"
    /\ r \in {"HookConnErr", "HookOtherErr"}
    /\ Finish(p, r, conn, lock, closeCount)
    /\ UNCHANGED <<keepalive, tasks, nextId, failed>>
    /\ UNCHANGED retry

-----------------------------------------------------------------------------

Next ==
    \/ \E t \in BagToSet(tasks) : AddOneEnqueue(t)
    \/ \E t \in BagToSet(tasks) : AddOneBackoff(t)
    \/ \E t \in BagToSet(tasks) : AddOneRaise(t)
    \/ \E p \in Procs : Call(p)
    \/ \E p \in Procs : Wakeup(p)
    \/ \E p \in Procs : CloseCall(p)
    \/ \E p \in Procs : KeepaliveStart(p)
    \/ \E p \in Procs : KeepaliveWake(p)
    \/ \E p \in Procs : ExitClean(p)
    \/ \E p \in Procs : ExitUnrelated(p)
    \/ \E p \in Procs : ExitFailure(p)
    \/ \E p \in Procs : DisposeReturn(p)
    \/ \E p \in Procs, r \in {"HookConnErr", "HookOtherErr"} : DisposeRaise(p, r)

Spec == Init /\ [][Next]_vars

SpecOverlap == InitOverlap /\ [][Next]_vars

\* The run of an open pool (close() is not called) under fair scheduling: a
\* hook that was called returns or raises, a runnable greenlet runs, a timer
\* fires; _new_connection() does not raise and, being retried, returns a
\* handle in the end.
LiveInit == InitWith({0, 1}, Closers) /\ retry = NoRetry

LiveNext ==
    \/ \E t \in BagToSet(tasks) : AddOneEnqueue(t)
    \/ \E t \in BagToSet(tasks) : AddOneBackoff(t)
    \/ \E p \in Procs : Call(p)
    \/ \E p \in Procs : Wakeup(p)
    \/ \E p \in Procs : KeepaliveStart(p)
    \/ \E p \in Procs : KeepaliveWake(p)
    \/ \E p \in Procs : ExitClean(p)
    \/ \E p \in Procs : ExitUnrelated(p)
    \/ \E p \in Procs : ExitFailure(p)
    \/ \E p \in Procs : DisposeReturn(p)
    \/ \E p \in Procs, r \in {"HookConnErr", "HookOtherErr"} : DisposeRaise(p, r)

Fairness ==
    /\ WF_vars(\E t \in BagToSet(tasks) : AddOneEnqueue(t))
    /\ \A p \in Procs :
         /\ WF_vars(Wakeup(p))
         /\ WF_vars(KeepaliveStart(p))
         /\ WF_vars(KeepaliveWake(p))
         /\ WF_vars(ExitClean(p) \/ ExitUnrelated(p) \/ ExitFailure(p))
         /\ WF_vars(DisposeReturn(p)
                    \/ \E r \in {"HookConnErr", "HookOtherErr"} :
                          DisposeRaise(p, r))

LiveSpec == LiveInit /\ [][LiveNext]_vars /\ Fairness

-----------------------------------------------------------------------------
(* Observations used by the properties *)

Range(q) == {q[n] : n \in 1..Len(q)}

\* greenlets inside a get() scope: the handle has been yielded to them
InScope == {p \in Procs : pc[p] = "scope"}

\* greenlets that own a handle taken from the queue: in the scope, or in
\* get()'s handler for a connection-level failure
Holders == {p \in Procs : pc[p] \in {"scope", "disposing"}}

\* the step ends a get() by an error raised before the scope was entered
EntryError ==
    /\ raised' # "none"
    /\ \A p \in Procs : pc[p] \in {"scope", "disposing"} => pc'[p] = pc[p]

\* close() call q has acquired a handle
Worked(q) == i[q] > 0 \/ pc[q] \in {"scope", "disposing"}

TypeOK ==
    /\ closed \in BOOLEAN
    /\ lock.counter \in 0..lock.initial_value
    /\ nextId \in 1..(MaxHandles + 1)
    /\ \A p \in Procs : c[p] \in Handles \cup {NoHandle}

-----------------------------------------------------------------------------
(* Properties *)

\* C1: the number of handles concurrently checked out (yielded to a get()
\* scope that has not exited) never exceeds the capacity.
C1_CheckedOutBound == Cardinality(InScope) <= Size

C1_Witness == Cardinality(InScope) = Size

\* C2: idle handles + handles held by an acquirer + _add_one tasks scheduled
\* or running never exceed the capacity, replacements included.
C2_CapacityInvariant ==
    Len(conn) + Cardinality(Holders) + BagCardinality(tasks) <= Size

\* a replacement is pending for a failed handle and the pool is at capacity
C2_Witness ==
    /\ \E h \in Handles : failed[h] = "lost"
    /\ \A p \in Procs : pc[p] # "disposing"
    /\ BagCardinality(tasks) >= 1
    /\ Len(conn) + Cardinality(Holders) + BagCardinality(tasks) = Size

\* C3: no handle is held by two acquirers at once, and no held handle is in
\* the idle queue.
C3_ExclusiveOwnership ==
    /\ \A p, q \in Holders : p # q => c[p] # c[q]
    /\ \A p \in Holders : c[p] \notin Range(conn)

C3_Witness ==
    \E p, q \in InScope : p # q /\ c[p] # c[q] /\ conn = <<>>

\* C4: in a closed pool every get() fails on entry with ClosedPoolError and
\* yields no handle (a greenlet already waiting for the lock is not a
\* subsequent call).
C4_ClosedGetRaisesClosedPoolError ==
    [][closed =>
         /\ \A p \in Procs : pc[p] \notin {"scope", "waiting"}
                               => pc'[p] \notin {"scope", "waiting"}
         /\ EntryError => raised' = "ClosedPoolError"]_vars

\* C5: a handle whose scope ended by a connection-level failure is never in
\* the queue again nor yielded again, and the error that leaves get() is the
\* original one.
C5_FailedHandleDropped ==
    /\ [](\A h \in Handles : failed[h] # "no" =>
             /\ h \notin Range(conn)
             /\ \A p \in InScope : c[p] # h)
    /\ [][\A p \in Procs : (pc[p] = "disposing" /\ pc'[p] # "disposing")
                             => raised' = "ConnErr"]_vars

\* C6: after a connection-level failure a new handle is eventually enqueued
\* (with its slot released), under fair scheduling.
C6_EventuallyReplaced ==
    \A h \in Handles : (failed[h] = "lost") ~> (failed[h] = "renewed")

\* C7: when an error outside exc_classes leaves a scope, the handle goes to
\* the back of the queue, the slot is released, no close hook is called, no
\* replacement is scheduled, and that error is what get() raises.
C7_UnrelatedErrorKeepsHandle ==
    [][\A p \in Procs :
         (pc[p] = "scope" /\ pc'[p] # "scope" /\ raised' = "OtherErr") =>
            /\ conn' = Append(conn, c[p])
            /\ lock'.counter = lock.counter + 1
            /\ closeCount' = closeCount
            /\ tasks' = tasks
            /\ failed' = failed]_vars

C7_Witness ==
    /\ raised = "OtherErr"
    /\ conn # <<>>
    /\ lock.counter = Len(conn)
    /\ \E h \in Range(conn) : closeCount[h] = 0

\* C8: on the failure exit, whatever _close_connection does, exactly one
\* replacement is scheduled and the original error leaves get().
C8_CloseHookErrorsIgnored ==
    [][\A p \in Procs : (pc[p] = "disposing" /\ pc'[p] # "disposing") =>
         /\ BagCardinality(tasks') = BagCardinality(tasks) + 1
         /\ raised' = "ConnErr"]_vars

\* C9: of the close() calls that have not been ended by an error, at most
\* one has acquired a handle.
C9_OnlyFirstCloseWorks ==
    Cardinality({q \in Closers : Worked(q) /\ pc[q] # "raised"}) <= 1

\* C10: when close() has returned, the close hook has been called exactly
\* once on every handle of the pool and more than once on none.
C10_EachHandleClosedOnce ==
    (\E q \in Closers : pc[q] = "done" /\ i[q] = Size) =>
        /\ \A h \in Range(conn) \cup {c[p] : p \in Holders} : closeCount[h] = 1
        /\ \A h \in Handles : closeCount[h] <= 1

\* a step of some _add_one greenlet: each one calls _new_connection()
AddOneStep ==
    \E t \in BagToSet(tasks) :
        AddOneEnqueue(t) \/ AddOneBackoff(t) \/ AddOneRaise(t)

\* C11: once self.closed is set no _add_one greenlet calls the create hook
\* or appends a handle, whenever that greenlet was scheduled.
C11_NoCreateAfterClose ==
    [][closed => /\ ~AddOneStep
                 /\ nextId' = nextId]_vars

-----------------------------------------------------------------------------
(* retry(f, exc_classes, logger, ..., max_failures, interval): deco *)

\* The wrapped function f is application code: each call of it returns a
\* value, raises an error of exc_classes or raises another error.  An error
\* is an Outcome, so that each raise is a distinct object.
\* retry.calls, sleeps, retryLogs and maxLogs count what deco does: calls of
\* f, of gevent.sleep and of logger.log with either message.

\* except exc_classes as e
RetryMatchesAll(e) == TRUE
RetryMatches(e) == e.kind \in ExcClasses

\* if logger is not None: logger.log(...)
LogSkip(logger, n) == n
Log(logger, n) == IF logger THEN n + 1 ELSE n

\* max_failures is not None and failures > max_failures
ExhaustedEarly(max_failures, failures) ==
    max_failures # None /\ failures >= max_failures
Exhausted(max_failures, failures) ==
    max_failures # None /\ failures > max_failures

\* deco(*args) is called: failures = 0, and f is called in the try block
DecoCall(m, lg) ==
    /\ retry.pc = "idle"
    /\ retry' = [NoRetry EXCEPT !.pc = "in_f", !.max_failures = m,
                                !.logger = lg, !.calls = 1]
    /\ UNCHANGED vars

\* f returns: return f(*args, **kwargs)
FReturn ==
    /\ retry.pc = "in_f"
    /\ retry' = [retry EXCEPT !.pc = "done", !.result = Outcome("value", retry.calls)]
    /\ UNCHANGED vars

\* f raises: an error outside exc_classes leaves deco; a matching one is
\* logged and deco sleeps for interval
FRaise(kind) ==
    /\ retry.pc = "in_f"
    \* without max_failures the failures of f are bounded here
    /\ (kind \in ExcClasses /\ retry.max_failures = None)
          => retry.failures < MaxFailures
    /\ LET e == Outcome(kind, retry.calls) IN
         IF RetryMatches(e)
         THEN retry' = [retry EXCEPT !.pc = "sleeping", !.e = e,
                           !.retryLogs = Log(retry.logger, @),
                           !.sleeps = @ + 1]
         ELSE retry' = [retry EXCEPT !.pc = "done", !.result = e]
    /\ UNCHANGED vars

\* gevent.sleep(interval) returns: failures += 1, then either the bare raise
\* or the next turn of "while True"
SleepReturn ==
    /\ retry.pc = "sleeping"
    /\ IF Exhausted(retry.max_failures, retry.failures + 1)
       THEN retry' = [retry EXCEPT !.pc = "done",
                          !.failures = @ + 1,
                          !.maxLogs = Log(retry.logger, @),
                          !.result = retry.e]
       ELSE retry' = [retry EXCEPT !.pc = "in_f",
                          !.failures = @ + 1,
                          !.calls = @ + 1]
    /\ UNCHANGED vars

RetryInit ==
    /\ InitWith({0}, Procs)
    /\ retry = [NoRetry EXCEPT !.pc = "idle"]

RetryNext ==
    \/ \E m \in {None} \cup (0..MaxFailures), lg \in BOOLEAN : DecoCall(m, lg)
    \/ FReturn
    \/ \E kind \in {"ConnErr", "OtherErr"} : FRaise(kind)
    \/ SleepReturn

RetrySpec == RetryInit /\ [][RetryNext]_<<vars, retry>>

\* the call of the wrapped function has ended
RetryDone == retry.pc = "done"

\* C12: with max_failures = N, when every call of f raises an error of
\* exc_classes, f is called N + 1 times, the error that leaves deco is the
\* one the last call raised, and the max-failure message is logged once
\* (by the logger, when there is one).
C12_ExhaustionAfterNPlusOne ==
    (RetryDone /\ retry.result.kind \in ExcClasses) =>
        /\ retry.max_failures # None
        /\ retry.calls = retry.max_failures + 1
        /\ retry.result = Outcome(retry.result.kind, retry.calls)
        /\ retry.maxLogs = IF retry.logger THEN 1 ELSE 0

C12_Witness ==
    /\ RetryDone
    /\ retry.max_failures = 2
    /\ retry.logger
    /\ retry.result = Outcome("ConnErr", 3)
    /\ retry.maxLogs = 1

\* C13: an error outside exc_classes raised by any call of f leaves deco at
\* once: it is never caught (so no log, no sleep, no increment of failures
\* is made for it) and f is not called again; what deco has counted is what
\* the earlier, matching failures caused.
C13_OtherErrorPropagatesAtOnce ==
    /\ retry.e.kind \in ExcClasses \cup {"none"}
    /\ retry.result.kind = "OtherErr" =>
         /\ RetryDone
         /\ retry.result = Outcome("OtherErr", retry.calls)
         /\ retry.sleeps = retry.calls - 1
         /\ retry.failures = retry.calls - 1
         /\ retry.retryLogs = (IF retry.logger THEN retry.calls - 1 ELSE 0)
         /\ retry.maxLogs = 0

\* the second call of f raises an error outside exc_classes
C13_Witness ==
    /\ RetryDone
    /\ retry.logger
    /\ retry.result = Outcome("OtherErr", 2)
    /\ retry.sleeps = 1

\* C14: when f fails k times with an error of exc_classes (k <= max_failures)
\* and then returns, deco returns that value after k + 1 calls of f, the
\* retry message has been logged k times (by the logger, when there is one)
\* and the max-failure message has not been logged.
C14_SuccessAfterKFailures ==
    (RetryDone /\ retry.result.kind = "value") =>
        /\ retry.result = Outcome("value", retry.calls)
        /\ retry.failures = retry.calls - 1
        /\ retry.max_failures # None => retry.failures <= retry.max_failures
        /\ retry.retryLogs = (IF retry.logger THEN retry.failures ELSE 0)
        /\ retry.maxLogs = 0

\* k = max_failures = 2: the third call succeeds
C14_Witness ==
    /\ RetryDone
    /\ retry.logger
    /\ retry.max_failures = 2
    /\ retry.result = Outcome("value", 3)
    /\ retry.retryLogs = 2

\* startup has settled with a create hook that always succeeded: the Size
\* tasks of __init__ have each enqueued a handle, and no handle has failed
Settled ==
    /\ tasks = EmptyBag
    /\ nextId = Size + 1
    /\ \A h \in Handles : failed[h] = "no"

\* C15: with capacity Size and a create hook that always succeeds, a settled
\* pool has Size handles, each idle or yielded to an open scope; a get()
\* made while fewer than Size scopes are open does not block; while Size
\* scopes are open a further get() blocks and no greenlet outside these
\* scopes is yielded a handle.
C15_CapacityScenario ==
    /\ [](Settled => /\ Len(conn) + Cardinality(InScope) = Size
                     /\ lock.counter = Len(conn))
    /\ [][Settled =>
            \A p \in Procs :
               /\ (Cardinality(InScope) < Size /\ pc[p] # "waiting")
                     => pc'[p] # "waiting"
               /\ (Cardinality(InScope) = Size /\ pc[p] # "scope")
                     => pc'[p] # "scope"
               /\ (Cardinality(InScope) = Size /\ pc[p] = "idle"
                      /\ pc'[p] # "idle" /\ ~closed)
                     => pc'[p] = "waiting"]_vars

\* Size scopes are open and one more greenlet is blocked in get()
C15_Witness ==
    /\ Settled
    /\ Cardinality(InScope) = Size
    /\ conn = <<>>
    /\ \E p \in Procs : pc[p] = "waiting"

\* C16: between any two steps the free permits of the semaphore equal the
\* number of idle handles: the failure exit of get() releases nothing, the
\* release comes with the append of the replacement in _add_one; hence
\* popleft after an acquire never finds the deque empty, and no release
\* happens at the semaphore's initial value.
C16_PermitsMatchIdleHandles ==
    /\ [](lock.counter = Len(conn))
    /\ [](raised \notin {"UnboundLocalError", "ValueError"})
    /\ [][/\ Len(conn') > Len(conn) => CanRelease(lock)
          /\ \A p \in Procs : (pc[p] = "scope" /\ pc'[p] = "disposing")
                => lock' = lock /\ conn' = conn]_vars

\* a failed handle has been replaced: its slot is free again
C16_Witness ==
    /\ \E h \in Handles : failed[h] = "renewed"
    /\ lock.counter = Len(conn)
    /\ Len(conn) = Size

\* C17: when a call of a retry-wrapped function with a logger has ended
\* (by a return, by exhaustion or by an error outside exc_classes), the
\* retry message has been logged once per re-invocation of f: calls - 1.
C17_RetryLogPerReinvocation ==
    (RetryDone /\ retry.logger) => retry.retryLogs = retry.calls - 1

\* C18: the keepalive loop of an open pool keeps running: when the probe
\* raises a connection-level failure the handle is not put back in the
\* queue, get() disposes of it and schedules its replacement, and the loop
\* swallows the error and sleeps before its next turn; a loop started on a
\* closed pool ends without calling get().
C18_KeepaliveLoopSurvivesFailure ==
    [][/\ (pc[KeepaliveLoop] = "scope" /\ pc'[KeepaliveLoop] = "disposing")
             => (conn' = conn /\ lock' = lock)
       /\ (pc[KeepaliveLoop] = "disposing"
              /\ pc'[KeepaliveLoop] # "disposing")
             => /\ pc'[KeepaliveLoop] = "sleeping"
                /\ BagCardinality(tasks') = BagCardinality(tasks) + 1
                /\ c[KeepaliveLoop] \notin Range(conn')
       /\ (pc[KeepaliveLoop] = "idle" /\ closed
              /\ pc'[KeepaliveLoop] # "idle")
             => /\ pc'[KeepaliveLoop] = "dead"
                /\ raised' = "none"
                /\ conn' = conn
                /\ lock' = lock
      ]_vars

\* C19: a handle yielded by get() to a scope other than the body of
\* close()'s loop has never been passed to _close_connection.
C19_NoClosedHandleYielded ==
    \A p \in InScope : Kind(p) # "closer" => closeCount[c[p]] = 0

-----------------------------------------------------------------------------
(* close() under fair scheduling *)

\* One call of close() on an open pool whose other users go on as they
\* like.  _new_connection() does not raise and returns a handle in the end,
\* every scope is left, every hook call returns or raises, and a greenlet
\* blocked in lock.acquire() gets the semaphore if it is free again and
\* again.
CloseLiveNext ==
    \/ LiveNext
    \/ \E p \in Procs : CloseCall(p)

CloseFairness ==
    /\ Fairness
    /\ \A p \in Procs : SF_vars(Wakeup(p))

CloseLiveSpec == Init /\ [][CloseLiveNext]_vars /\ CloseFairness

\* close() call q is running
Closing(q) == pc[q] \in {"waiting", "scope", "disposing"}

\* C20: under fair scheduling a running close() comes to an end: it does not
\* wait forever in lock.acquire().
C20_CloseTerminates ==
    \A q \in Closers : Closing(q) ~> (pc[q] \in {"done", "raised"})

=============================================================================
